---- MODULE Spec2Model ----
(***************************************************************************)
(* A model of tinygrad/tensor.py: the Tensor node, the Function context,   *)
(* the op registry with its per-backend dispatch, device migration and the *)
(* backward engine.  The kernels of tinygrad.ops / tinygrad.opsgpu are not *)
(* part of tensor.py; the four kernels used here (Add, Mul, Double, Sum)   *)
(* follow the kernel protocol of the specification.                        *)
(***************************************************************************)
EXTENDS Integers, Sequences, FiniteSets, TLC

VARIABLES
  GPU,          \* tensor.py:5-10   whether pyopencl could be imported
  default_gpu,  \* tensor.py:66     Tensor.default_gpu
  ops,          \* tensor.py:205    Tensor.ops     name -> <<>> or <<fxn>>
  opsgpu,       \* tensor.py:206    Tensor.opsgpu  name -> <<>> or <<fxn>>
  heap,         \* the Tensor objects the caller holds, in creation order
  ctxs,         \* the Function instances (contexts), in creation order
  pc,           \* "idle", or "propagating" inside the loop of backward()
  bw,           \* the locals of the running (or last) backward() call
  last,         \* outcome of the most recent call: op, error, returned tensor
  nback,        \* number of backward() calls that got past the leaf test
  ninplace,     \* number of in-place arithmetic calls
  detached      \* the pairs <<receiver, result>> of the detach() calls made

vars == <<GPU, default_gpu, ops, opsgpu, heap, ctxs, pc, bw, last, nback, ninplace,
          detached>>

\* ---------------------------------------------------------------- bounds
MaxTensors  == 4   \* tensors held in the gradient-arithmetic specifications
MaxShapes   == 3   \* tensors held in the shape specification
MaxDevs     == 3   \* tensors held in the registry and device specifications
MaxSeeds    == 3   \* tensors held in the seeding specification
MaxMig      == 4   \* tensors held in the migration specification
MaxFresh    == 1   \* backward() calls on a non-leaf, gradient-arithmetic specifications
MaxBackward == 2   \* backward() calls on a non-leaf, shape and device specifications
MaxInplace  == 1   \* in-place arithmetic calls
MaxDetach   == 4   \* tensors held in the detach specification
MaxMismatch == 4   \* tensors held in the shape-mismatch specification
MaxGraph    == 3   \* tensors held in the graph specification

\* ---------------------------------------------------------------- buffers
\* A raw buffer (numpy array or cl buffer): flat row-major values, a shape
\* of rank <= 2, an element type and the device it lives on.
MkBuf(v, s, d, g) == [vals |-> v, shape |-> s, dt |-> d, gpu |-> g]

RECURSIVE Prod(_)
Prod(s) == IF Len(s) = 0 THEN 1 ELSE Head(s) * Prod(Tail(s))

RECURSIVE SumSeq(_)
SumSeq(s) == IF Len(s) = 0 THEN 0 ELSE Head(s) + SumSeq(Tail(s))

MaxOf(a, b) == IF a >= b THEN a ELSE b

Pad2(s) == IF Len(s) = 0 THEN <<1, 1>> ELSE IF Len(s) = 1 THEN <<1, s[1]>> ELSE s

\* numpy broadcasting of two shapes of rank <= 2
BShapeOK(s1, s2) ==
  LET p == Pad2(s1)  q == Pad2(s2)
  IN \A k \in 1..2 : p[k] = q[k] \/ p[k] = 1 \/ q[k] = 1

BShape(s1, s2) ==
  LET p == Pad2(s1)  q == Pad2(s2)
      m == <<MaxOf(p[1], q[1]), MaxOf(p[2], q[2])>>
      r == MaxOf(Len(s1), Len(s2))
  IN SubSeq(m, 3 - r, 2)

\* element (i, j) of the padded result, read from operand b
Elt(b, i, j) ==
  LET p == Pad2(b.shape)
  IN b.vals[(IF p[1] = 1 THEN 0 ELSE i) * p[2] + (IF p[2] = 1 THEN 0 ELSE j) + 1]

Promote(d1, d2) == IF d1 = "f64" \/ d2 = "f64" THEN "f64" ELSE "f32"

Plus  == "+"
Times == "*"
Apply2(f, a, b) == IF f = Plus THEN a + b ELSE a * b

\* elementwise numpy binary operator with broadcasting; the result stays on
\* the operands' device
BinOp(f, x, y) ==
  LET m == Pad2(BShape(x.shape, y.shape))
  IN MkBuf([n \in 1..(m[1] * m[2]) |->
               Apply2(f, Elt(x, (n - 1) \div m[2], (n - 1) % m[2]),
                         Elt(y, (n - 1) \div m[2], (n - 1) % m[2]))],
           BShape(x.shape, y.shape), Promote(x.dt, y.dt), x.gpu)

Scale(c, x) == [x EXCEPT !.vals = [n \in 1..Len(x.vals) |-> c * x.vals[n]]]

np_ones(s, d) == MkBuf([n \in 1..Prod(s) |-> 1], s, d, FALSE)

\* ---------------------------------------------------------------- kernels
Names   == {"add", "mul", "double", "sum", "first"}
KernOf  == [add |-> "Add", mul |-> "Mul", double |-> "Double", sum |-> "Sum",
            first |-> "First"]
MkFxn(k, g, v) == [kern |-> k, gpu |-> g, ver |-> v]

KFail == [err |-> "KernelError", buf |-> <<>>, saved |-> <<>>]
KOk(b, s) == [err |-> "", buf |-> <<b>>, saved |-> s]

\* fxn.forward(ctx, *raw buffers): the output buffer and what it saved
forward(f, xs) ==
  IF \E k \in 1..Len(xs) : xs[k].gpu # f.gpu THEN KFail
  ELSE IF f.kern = "First"
    THEN IF Len(xs) # 2 THEN KFail ELSE KOk(xs[1], <<>>)
  ELSE IF f.kern \in {"Add", "Mul"}
    THEN IF Len(xs) # 2 THEN KFail
         ELSE IF ~BShapeOK(xs[1].shape, xs[2].shape) THEN KFail
         ELSE IF f.kern = "Add" THEN KOk(BinOp(Plus, xs[1], xs[2]), <<>>)
         ELSE KOk(BinOp(Times, xs[1], xs[2]), xs)
  ELSE IF Len(xs) # 1 THEN KFail
  ELSE IF f.kern = "Double" THEN KOk(Scale(2, xs[1]), <<>>)
  ELSE KOk(MkBuf(<<SumSeq(xs[1].vals)>>, <<1>>, xs[1].dt, f.gpu), xs)

BFail == [err |-> "KernelError", bare |-> FALSE, bufs |-> <<>>]
BTuple(s) == [err |-> "", bare |-> FALSE, bufs |-> s]
BBare(b)  == [err |-> "", bare |-> TRUE, bufs |-> <<<<b>>>>]

\* fxn.backward(ctx, grad_output): a tuple with one slot per parent (a slot
\* is <<>> for None or <<buffer>>), or a bare buffer for a one-parent op
kbackward(c, g) ==
  IF g.gpu # c.fxn.gpu THEN BFail
  ELSE IF c.fxn.kern = "Add" THEN BTuple(<< <<g>>, <<g>> >>)
  ELSE IF c.fxn.kern = "First" THEN BTuple(<< <<g>>, <<>> >>)
  ELSE IF c.fxn.kern = "Mul"
    THEN IF ~BShapeOK(c.saved[1].shape, g.shape) \/ ~BShapeOK(c.saved[2].shape, g.shape)
         THEN BFail
         ELSE BTuple(<< <<BinOp(Times, c.saved[2], g)>>, <<BinOp(Times, c.saved[1], g)>> >>)
  ELSE IF c.fxn.kern = "Double" THEN BBare(Scale(2, g))
  ELSE IF ~BShapeOK(g.shape, c.saved[1].shape) THEN BFail
  ELSE BBare(BinOp(Times, g, [c.saved[1] EXCEPT !.vals = [n \in 1..Len(@) |-> 1]]))

\* ---------------------------------------------------------------- Tensor
NoTensor == 0
MkTensor(d, g, gr, c) == [data |-> d, gpu |-> g, grad |-> gr, ctx |-> c]
\* a gradient is a Tensor of its own; the model keeps its data and device
MkGrad(d, g) == [data |-> d, gpu |-> g]

TFail(e) == [err |-> e, data |-> <<>>, gpu |-> FALSE, same |-> FALSE]
TOk(d, g, s) == [err |-> "", data |-> <<d>>, gpu |-> g, same |-> s]

\* Tensor.cuda on (self.data, self.gpu): the buffer of the returned Tensor
cuda_data(d, g) ==
  IF ~GPU THEN TFail("BackendUnavailable")
  ELSE IF g THEN TOk(d, TRUE, TRUE)
  ELSE IF d.dt # "f32" THEN TFail("AssertionFailure")
  ELSE IF d.gpu THEN TFail("AttributeError")
  ELSE TOk(MkBuf(d.vals, d.shape, d.dt, TRUE), TRUE, FALSE)

\* a copy to the host that allocates the array and never fills it
cpu_data_empty(d, g) ==
  IF g THEN TOk(MkBuf([n \in 1..Prod(d.shape) |-> 0], d.shape, "f32", FALSE),
                FALSE, FALSE)
  ELSE TOk(d, g, TRUE)

\* Tensor.cpu on (self.data, self.gpu)
cpu_data(d, g) ==
  IF g THEN TOk(MkBuf([n \in 1..Prod(d.shape) |-> d.vals[n]], d.shape, "f32", FALSE),
                FALSE, FALSE)
  ELSE TOk(d, g, TRUE)

\* Tensor.__init__(data, gpu): gpuarg is "None", "cpu" (False) or "gpu" (True)
TensorInit(d, gpuarg) ==
  LET want == IF gpuarg = "None" THEN default_gpu ELSE gpuarg = "gpu"
  IN IF want THEN cuda_data(d, d.gpu) ELSE TOk(d, d.gpu, FALSE)

\* outcome of a call: the error raised ("" for none), the Tensor returned
\* and, for a failed shape assertion, the context its message names
Done(op, e, r) == [op |-> op, err |-> e, ret |-> r, ctx |-> 0]

\* the locals of a backward() call: the terminal, the walker's nodes, the
\* number of loop iterations made; and for the properties, whether every
\* gradient was absent at the call, whether the terminal was seeded, the
\* buffers accumulated into each tensor so far, and every tensor's
\* gradient as the call found it
NoBw == [self |-> 0, nodes |-> <<>>, i |-> 0, fresh |-> FALSE, seeded |-> FALSE,
         contrib |-> <<>>, before |-> <<>>]

\* ---------------------------------------------------------------- actions
\* Tensor(data, gpu) called by the user with a list or a numpy array
NewTensor(d, gpuarg) ==
  /\ pc = "idle"
  /\ LET r == TensorInit(d, gpuarg)
     IN IF r.err # ""
        THEN /\ last' = Done("Tensor", r.err, NoTensor)
             /\ UNCHANGED heap
        ELSE /\ heap' = Append(heap, MkTensor(r.data[1], r.gpu, <<>>, 0))
             /\ last' = Done("Tensor", "", Len(heap) + 1)
  /\ UNCHANGED <<GPU, default_gpu, ops, opsgpu, ctxs, pc, bw, nback, ninplace, detached>>

\* Tensor.default_gpu = b
SetDefaultGpu(b) ==
  /\ pc = "idle"
  /\ default_gpu' = b
  /\ UNCHANGED <<GPU, ops, opsgpu, heap, ctxs, pc, bw, last, nback, ninplace, detached>>

\* ---------------------------------------------------------------- registry
\* a registration that writes the class into the tables of both backends
register_both(name, fxn, gpu) ==
  /\ pc = "idle"
  /\ opsgpu' = [opsgpu EXCEPT ![name] = <<fxn>>]
  /\ ops' = [ops EXCEPT ![name] = <<fxn>>]
  /\ last' = Done("register", "", NoTensor)
  /\ UNCHANGED <<GPU, default_gpu, heap, ctxs, pc, bw, nback, ninplace, detached>>

\* register(name, fxn, gpu)
register(name, fxn, gpu) ==
  /\ pc = "idle"
  /\ IF gpu
     THEN opsgpu' = [opsgpu EXCEPT ![name] = <<fxn>>] /\ UNCHANGED ops
     ELSE ops' = [ops EXCEPT ![name] = <<fxn>>] /\ UNCHANGED opsgpu
  /\ last' = Done("register", "", NoTensor)
  /\ UNCHANGED <<GPU, default_gpu, heap, ctxs, pc, bw, nback, ninplace, detached>>

AFail(e) == [err |-> e, data |-> <<>>, gpu |-> FALSE, fxn |-> <<>>, saved |-> <<>>]

\* Function.apply(f, *x) on the raw buffers of x: the data and device of the
\* returned Tensor, and the class and saved buffers of its context
\* ret = Tensor(...); ret._ctx = ctx, for the Tensor outcome r
apply_ret(f, saved, r) ==
  IF r.err # "" THEN AFail(r.err)
  ELSE [err |-> "", data |-> r.data, gpu |-> r.gpu, fxn |-> <<f>>, saved |-> saved]

\* Tensor(op.forward(ctx, *[t.data for t in x])), for the kernel outcome fw
apply_wrap(f, fw) ==
  IF fw.err # "" THEN AFail(fw.err)
  ELSE apply_ret(f, fw.saved, TensorInit(fw.buf[1], "None"))

apply(f, bufs) == apply_wrap(f, forward(f, bufs))

\* a dispatch closure that picks the table by the default device
dispatch_default(name, g0, bufs) ==
  LET tab == IF default_gpu THEN opsgpu ELSE ops
  IN IF tab[name] = <<>> THEN AFail("OperationNotFound")
     ELSE apply(tab[name][1], bufs)

\* the dispatch closure of register: g0 is x[0].gpu
dispatch(name, g0, bufs) ==
  LET tab == IF g0 THEN opsgpu ELSE ops
  IN IF tab[name] = <<>> THEN AFail("OperationNotFound")
     ELSE apply(tab[name][1], bufs)

DataOf(xs) == [k \in 1..Len(xs) |-> heap[xs[k]].data]

\* x[0].name(*x[1:]) for a registered name
Dispatch(name, xs) ==
  /\ pc = "idle"
  /\ LET r == dispatch(name, heap[xs[1]].gpu, DataOf(xs))
     IN IF r.err # ""
        THEN /\ last' = Done(name, r.err, NoTensor)
             /\ UNCHANGED <<heap, ctxs>>
        ELSE /\ ctxs' = Append(ctxs, [fxn |-> r.fxn[1], parents |-> xs, saved |-> r.saved])
             /\ heap' = Append(heap, MkTensor(r.data[1], r.gpu, <<>>, Len(ctxs) + 1))
             /\ last' = Done(name, "", Len(heap) + 1)
  /\ UNCHANGED <<GPU, default_gpu, ops, opsgpu, pc, bw, nback, ninplace, detached>>

\* an assign that also drops the receiver's producer
assign_unlink(t, d) == [t EXCEPT !.data = d, !.ctx = 0]

\* Tensor.assign
assign(t, d) == [t EXCEPT !.data = d]

\* self.__iadd__(x), self.__imul__(x): self.assign(dispatch(self, x))
IDispatch(name, s, x) ==
  /\ pc = "idle"
  /\ ninplace' = ninplace + 1
  /\ LET r == dispatch(name, heap[s].gpu, DataOf(<<s, x>>))
     IN IF r.err # ""
        THEN /\ last' = Done("i" \o name, r.err, NoTensor)
             /\ UNCHANGED heap
        ELSE /\ heap' = [heap EXCEPT ![s] = assign(@, r.data[1])]
             /\ last' = Done("i" \o name, "", NoTensor)
  /\ UNCHANGED <<GPU, default_gpu, ops, opsgpu, ctxs, pc, bw, nback, detached>>

\* ---------------------------------------------------------------- devices
\* self.grad.cuda() / self.grad.cpu() of a present gradient
MigrateGrad(gr, to) ==
  IF gr = <<>> THEN [err |-> "", grad |-> <<>>]
  ELSE LET m == IF to = "cuda" THEN cuda_data(gr[1].data, gr[1].gpu)
                ELSE cpu_data(gr[1].data, gr[1].gpu)
       IN IF m.err # "" THEN [err |-> m.err, grad |-> <<>>]
          ELSE [err |-> "", grad |-> <<MkGrad(m.data[1], m.gpu)>>]

\* the Tensor returned by Tensor.cuda (to = "cuda") / Tensor.cpu (to = "cpu")
Migrated(t, to) ==
  LET m == IF to = "cuda" THEN cuda_data(t.data, t.gpu) ELSE cpu_data(t.data, t.gpu)
  IN IF m.err # "" THEN [err |-> m.err, same |-> FALSE, t |-> <<>>]
     ELSE IF m.same THEN [err |-> "", same |-> TRUE, t |-> <<t>>]
     ELSE LET g == MigrateGrad(t.grad, to)
          IN IF g.err # "" THEN [err |-> g.err, same |-> FALSE, t |-> <<>>]
             ELSE [err |-> "", same |-> FALSE,
                   t |-> <<MkTensor(m.data[1], m.gpu, g.grad, 0)>>]

cuda_ret(t) == Migrated(t, "cuda")
cpu_ret(t)  == Migrated(t, "cpu")

Migrate(op, t, r) ==
  /\ pc = "idle"
  /\ IF r.err # ""
     THEN last' = Done(op, r.err, NoTensor) /\ UNCHANGED heap
     ELSE IF r.same
     THEN last' = Done(op, "", t) /\ UNCHANGED heap
     ELSE /\ heap' = Append(heap, r.t[1])
          /\ last' = Done(op, "", Len(heap) + 1)
  /\ UNCHANGED <<GPU, default_gpu, ops, opsgpu, ctxs, pc, bw, nback, ninplace, detached>>

\* t.cuda()
cuda(t) == Migrate("cuda", t, cuda_ret(heap[t]))

\* t.cpu()
cpu(t) == Migrate("cpu", t, cpu_ret(heap[t]))

\* an in-place migration that takes the migrated gradient along
cuda__with_grad(t) ==
  /\ pc = "idle"
  /\ LET r == cuda_ret(heap[t])
     IN IF r.err # ""
        THEN last' = Done("cuda_", r.err, NoTensor) /\ UNCHANGED heap
        ELSE /\ heap' = [heap EXCEPT ![t].data = r.t[1].data, ![t].gpu = TRUE,
                                     ![t].grad = r.t[1].grad]
             /\ last' = Done("cuda_", "", NoTensor)
  /\ UNCHANGED <<GPU, default_gpu, ops, opsgpu, ctxs, pc, bw, nback, ninplace, detached>>

\* t.cuda_(): self.data = self.cuda().data; self.gpu = True
cuda_(t) ==
  /\ pc = "idle"
  /\ LET r == cuda_ret(heap[t])
     IN IF r.err # ""
        THEN last' = Done("cuda_", r.err, NoTensor) /\ UNCHANGED heap
        ELSE /\ heap' = [heap EXCEPT ![t].data = r.t[1].data, ![t].gpu = TRUE]
             /\ last' = Done("cuda_", "", NoTensor)
  /\ UNCHANGED <<GPU, default_gpu, ops, opsgpu, ctxs, pc, bw, nback, ninplace, detached>>

\* a detach that hands the receiver's producer to the result
detach_linked(t) ==
  /\ pc = "idle"
  /\ heap' = Append(heap, MkTensor(heap[t].data, heap[t].gpu, <<>>, heap[t].ctx))
  /\ last' = Done("detach", "", Len(heap) + 1)
  /\ detached' = detached \cup {<<t, Len(heap) + 1>>}
  /\ UNCHANGED <<GPU, default_gpu, ops, opsgpu, ctxs, pc, bw, nback, ninplace>>

\* t.detach(): Tensor(self.data, self.gpu)
detach(t) ==
  /\ pc = "idle"
  /\ LET r == TensorInit(heap[t].data, IF heap[t].gpu THEN "gpu" ELSE "cpu")
     IN IF r.err # ""
        THEN last' = Done("detach", r.err, NoTensor) /\ UNCHANGED <<heap, detached>>
        ELSE /\ heap' = Append(heap, MkTensor(r.data[1], r.gpu, <<>>, 0))
             /\ last' = Done("detach", "", Len(heap) + 1)
             /\ detached' = detached \cup {<<t, Len(heap) + 1>>}
  /\ UNCHANGED <<GPU, default_gpu, ops, opsgpu, ctxs, pc, bw, nback, ninplace>>

\* ---------------------------------------------------------------- backward
\* deepwalk of Tensor.backward: st carries the closure's visited and nodes
RECURSIVE deepwalk(_, _), walk_parents(_, _, _)
\* a walk that appends a node before it walks the node's parents
deepwalk_preorder(node, st) ==
  LET st1 == [st EXCEPT !.visited = @ \cup {node}]
  IN IF heap[node].ctx # 0
     THEN walk_parents(ctxs[heap[node].ctx].parents, 1,
                       [st1 EXCEPT !.nodes = Append(@, node)])
     ELSE st1

deepwalk(node, st) ==
  LET st1 == [st EXCEPT !.visited = @ \cup {node}]
  IN IF heap[node].ctx # 0
     THEN [walk_parents(ctxs[heap[node].ctx].parents, 1, st1)
             EXCEPT !.nodes = Append(@, node)]
     ELSE st1

\* a loop over the parents that walks into visited ones again
walk_parents_revisit(ps, k, st) ==
  IF k > Len(ps) THEN st
  ELSE walk_parents(ps, k + 1, deepwalk(ps[k], st))

walk_parents(ps, k, st) ==
  IF k > Len(ps) THEN st
  ELSE walk_parents(ps, k + 1,
                    IF ps[k] \in st.visited THEN st ELSE deepwalk(ps[k], st))

Nodes(t) == deepwalk(t, [visited |-> {}, nodes |-> <<>>]).nodes

\* iterating a bare numpy array yields its rows
Rows(b) ==
  LET w == Prod(Tail(b.shape))
  IN [k \in 1..b.shape[1] |->
        <<MkBuf(SubSeq(b.vals, (k - 1) * w + 1, k * w), Tail(b.shape), b.dt, b.gpu)>>]

\* a pairing that hands the returned buffers to the parents in reverse
grads_list_reversed(n, kb) ==
  IF n = 1 THEN kb.bufs
  ELSE [k \in 1..Len(kb.bufs) |-> kb.bufs[Len(kb.bufs) + 1 - k]]

\* a pairing that iterates a one-parent result like any other
grads_list_nowrap(n, kb) ==
  IF kb.bare THEN Rows(kb.bufs[1][1]) ELSE kb.bufs

\* the sequence zip() pairs with the parents: a one-parent result is wrapped
\* in a list (the kernels here return a bare buffer for one parent),
\* anything else is iterated as returned
grads_list(n, kb) ==
  IF n = 1 THEN kb.bufs
  ELSE IF kb.bare THEN Rows(kb.bufs[1][1]) ELSE kb.bufs

\* the gradient a Tensor outcome r becomes, or the error it raised
grad_of(r) ==
  IF r.err # "" THEN [err |-> r.err, grad |-> <<>>]
  ELSE [err |-> "", grad |-> <<MkGrad(r.data[1], r.gpu)>>]

\* tg if t.grad is None else (t.grad + tg), for the outcome tg of Tensor(g)
grad_plus(old, tg) ==
  IF tg.err # "" \/ old = <<>> THEN grad_of(tg)
  ELSE grad_of(dispatch("add", old[1].gpu, <<old[1].data, tg.data[1]>>))

\* a gradient accumulation that adopts the new buffer even when a gradient
\* is already present
new_grad_overwrite(old, g) == grad_of(TensorInit(g, "None"))

\* Tensor(g) if t.grad is None else (t.grad + Tensor(g))
new_grad(old, g) == grad_plus(old, TensorInit(g, "None"))

\* the loop over zip(t0._ctx.parents, grads), from slot k on; st carries the
\* error raised, the tensors and the contributions accumulated so far
\* t.grad = ng, for the outcome ng of the accumulation
set_grad(st, t, g, k, ng) ==
  IF ng.err # "" THEN [st EXCEPT !.err = ng.err]
  ELSE [st EXCEPT !.heap[t].grad = ng.grad,
                  !.contrib[t] = Append(@, [g |-> g, u |-> st.t0, k |-> k])]

\* the body of the loop for one pair (t, g) with g present
accumulate_pair(st, t, g, k) ==
  IF g.shape # st.heap[t].data.shape THEN [st EXCEPT !.err = "ShapeMismatch"]
  ELSE set_grad(st, t, g, k, new_grad(st.heap[t].grad, g))

RECURSIVE accumulate(_, _, _, _)
accumulate(ps, gs, k, st) ==
  IF st.err # "" \/ k > Len(ps) \/ k > Len(gs) THEN st
  ELSE accumulate(ps, gs, k + 1,
                  IF gs[k] = <<>> THEN st ELSE accumulate_pair(st, ps[k], gs[k][1], k))

\* a leaf test that never answers yes
is_leaf_never(t) == FALSE

\* self._ctx is None
is_leaf(t) == t.ctx = 0

\* a seed built on the default device
seed_grad_default(t) == TensorInit(np_ones(t.data.shape, t.data.dt), "None")

\* Tensor(np.ones(self.data.shape, dtype=self.data.dtype), gpu=self.gpu)
seed_grad(t) ==
  TensorInit(np_ones(t.data.shape, t.data.dt), IF t.gpu THEN "gpu" ELSE "cpu")

\* a seeding test that ignores a gradient already present
wants_fill_always(t, allow_fill) == allow_fill

\* self.grad is None and allow_fill
wants_fill(t, allow_fill) == t.grad = <<>> /\ allow_fill

\* t.backward(allow_fill) up to the start of the loop over reversed(nodes)
backward_begin(t, allow_fill) ==
  /\ pc = "idle"
  /\ IF is_leaf(heap[t])
     THEN /\ last' = Done("backward", "", NoTensor)
          /\ bw' = [NoBw EXCEPT !.self = t]
          /\ UNCHANGED <<heap, pc, nback>>
     ELSE
       /\ LET fill == wants_fill(heap[t], allow_fill)
              seed == seed_grad(heap[t])
          IN IF fill /\ heap[t].data.shape # <<1>>
             THEN /\ last' = Done("backward", "AssertionFailure", NoTensor)
                  /\ bw' = [NoBw EXCEPT !.self = t]
                  /\ UNCHANGED <<heap, pc, nback>>
             ELSE IF fill /\ seed.err # ""
             THEN /\ last' = Done("backward", seed.err, NoTensor)
                  /\ bw' = [NoBw EXCEPT !.self = t]
                  /\ UNCHANGED <<heap, pc, nback>>
             ELSE /\ heap' = IF fill
                               THEN [heap EXCEPT ![t].grad = <<MkGrad(seed.data[1], seed.gpu)>>]
                               ELSE heap
                  /\ bw' = [self |-> t, nodes |-> Nodes(t), i |-> 0,
                            fresh |-> \A u \in 1..Len(heap) : heap[u].grad = <<>>,
                            seeded |-> fill,
                            contrib |-> [u \in 1..Len(heap) |-> <<>>],
                            before |-> [u \in 1..Len(heap) |-> heap[u].grad]]
                  /\ nback' = nback + 1
                  /\ IF Nodes(t) = <<>>
                     THEN pc' = "idle" /\ last' = Done("backward", "", NoTensor)
                     ELSE pc' = "propagating" /\ last' = Done("backward", "running", NoTensor)
  /\ UNCHANGED <<GPU, default_gpu, ops, opsgpu, ctxs, ninplace, detached>>

\* the call ends with the exception e; ctx is the context a failed shape
\* assertion names
Abort(e, ctx) ==
  /\ pc' = "idle"
  /\ last' = [Done("backward", e, NoTensor) EXCEPT !.ctx = ctx]

\* the iteration leaves the zip loop in st
backward_zipped(st) ==
  /\ heap' = st.heap
  /\ bw' = [bw EXCEPT !.i = @ + 1, !.contrib = st.contrib]
  /\ IF st.err # ""
     THEN Abort(st.err, IF st.err = "ShapeMismatch" THEN heap[bw.self].ctx ELSE 0)
     ELSE IF bw.i + 1 = Len(bw.nodes)
     THEN pc' = "idle" /\ last' = Done("backward", "", NoTensor)
     ELSE UNCHANGED <<pc, last>>

\* the iteration once t0._ctx.backward has answered kb
backward_grads(t0, c, kb) ==
  IF kb.err # ""
  THEN Abort(kb.err, 0) /\ UNCHANGED <<heap, bw>>
  ELSE backward_zipped(
         accumulate(c.parents, grads_list(Len(c.parents), kb), 1,
                    [err |-> "", heap |-> heap, contrib |-> bw.contrib, t0 |-> t0]))

\* the iteration for the node t0
backward_node(t0) ==
  IF heap[t0].grad = <<>>
  THEN Abort("AssertionFailure", 0) /\ UNCHANGED <<heap, bw>>
  ELSE backward_grads(t0, ctxs[heap[t0].ctx],
                      kbackward(ctxs[heap[t0].ctx], heap[t0].grad[1].data))

\* one iteration of "for t0 in reversed(nodes)"; the call returns after the
\* last one and aborts on the first error
backward_step ==
  /\ pc = "propagating"
  /\ backward_node(bw.nodes[Len(bw.nodes) - bw.i])
  /\ UNCHANGED <<GPU, default_gpu, ops, opsgpu, ctxs, nback, ninplace, detached>>

\* ---------------------------------------------------------------- specifications
Ids == 1..Len(heap)
Pairs == {<<a, b>> : a \in Ids, b \in Ids}
Args == {<<a>> : a \in Ids} \cup Pairs
F32(v, sh) == MkBuf(v, sh, "f32", FALSE)

\* the state after "import tinygrad.tensor": tinygrad.ops has registered the
\* host kernels and, with pyopencl, tinygrad.opsgpu the accelerator ones;
\* "double" and "first" are registered later by their user
InitWith(g) ==
  /\ GPU = g
  /\ default_gpu = FALSE
  /\ ops = [n \in Names |-> IF n \in {"double", "first"} THEN <<>>
                             ELSE <<MkFxn(KernOf[n], FALSE, 1)>>]
  /\ opsgpu = [n \in Names |-> IF g /\ n \notin {"double", "first"}
                                THEN <<MkFxn(KernOf[n], TRUE, 1)>> ELSE <<>>]
  /\ heap = <<>>
  /\ ctxs = <<>>
  /\ pc = "idle"
  /\ bw = NoBw
  /\ last = Done("import", "", NoTensor)
  /\ nback = 0
  /\ ninplace = 0
  /\ detached = {}

Init == InitWith(FALSE)

\* gradient arithmetic on the host: sums and products over one leaf value
Next ==
  \/ Len(heap) < MaxTensors /\ NewTensor(F32(<<3>>, <<1>>), "None")
  \/ \E n \in {"add", "mul"} : \E xs \in Pairs :
        Len(heap) < MaxTensors /\ Dispatch(n, xs)
  \/ \E t \in Ids : \E f \in BOOLEAN : nback < MaxFresh /\ backward_begin(t, f)
  \/ backward_step

Spec == Init /\ [][Next]_vars

\* products of two different leaf values on the host
NextMul ==
  \/ \E d \in {F32(<<2>>, <<1>>), F32(<<3>>, <<1>>)} :
        Len(heap) < MaxTensors /\ NewTensor(d, "None")
  \/ \E xs \in Pairs : Len(heap) < MaxTensors /\ Dispatch("mul", xs)
  \/ \E t \in Ids : \E f \in BOOLEAN : nback < MaxFresh /\ backward_begin(t, f)
  \/ backward_step

SpecMul == Init /\ [][NextMul]_vars

\* chains of the one-parent test op on the host
NextChain ==
  \/ Len(heap) < MaxTensors /\ NewTensor(F32(<<1>>, <<1>>), "None")
  \/ register("double", MkFxn("Double", FALSE, 1), FALSE)
  \/ \E n \in {"double", "add"} : \E xs \in Args :
        Len(heap) < MaxTensors /\ Dispatch(n, xs)
  \/ \E t \in Ids : \E f \in BOOLEAN : nback < MaxFresh /\ backward_begin(t, f)
  \/ backward_step

SpecChain == Init /\ [][NextChain]_vars

\* shapes on the host: broadcasting kernels, reductions, in-place arithmetic
NextShape ==
  \/ \E d \in {F32(<<3>>, <<1>>), F32(<<1, 2>>, <<2>>), F32(<<2>>, <<1, 1>>)} :
        Len(heap) < MaxShapes /\ NewTensor(d, "None")
  \/ \E n \in {"add", "sum"} : \E xs \in Args :
        Len(heap) < MaxShapes /\ Dispatch(n, xs)
  \/ \E s \in Ids : \E x \in Ids : ninplace < MaxInplace /\ IDispatch("add", s, x)
  \/ \E t \in Ids : \E f \in BOOLEAN : nback < MaxBackward /\ backward_begin(t, f)
  \/ backward_step

SpecShape == Init /\ [][NextShape]_vars

\* the registry and the device of a dispatched result: construction on
\* either device, the default device, registration of the test op
InitDev == InitWith(TRUE)

NextReg ==
  \/ \E a \in {"None", "cpu", "gpu"} :
        Len(heap) < MaxDevs /\ NewTensor(F32(<<2>>, <<1>>), a)
  \/ \E b \in BOOLEAN : SetDefaultGpu(b)
  \/ \E g \in BOOLEAN : \E v \in 1..2 : register("double", MkFxn("Double", g, v), g)
  \/ \E n \in {"add", "double"} : \E xs \in Args :
        Len(heap) < MaxDevs /\ Dispatch(n, xs)

SpecReg == InitDev /\ [][NextReg]_vars

\* seeding: terminals of several shapes on either device
NextSeed ==
  \/ \E a \in {"cpu", "gpu"} : Len(heap) < MaxSeeds /\ NewTensor(F32(<<2>>, <<1>>), a)
  \/ \E d \in {F32(<<2>>, <<1, 1>>), F32(<<1, 2>>, <<2>>)} :
        Len(heap) < MaxSeeds /\ NewTensor(d, "cpu")
  \/ \E b \in BOOLEAN : SetDefaultGpu(b)
  \/ \E xs \in Pairs : Len(heap) < MaxSeeds /\ Dispatch("add", xs)
  \/ \E t \in Ids : \E f \in BOOLEAN : nback < MaxBackward /\ backward_begin(t, f)
  \/ backward_step

SpecSeed == InitDev /\ [][NextSeed]_vars

\* migration to the accelerator and back, with gradients attached; the
\* default device may be switched to the accelerator at any point
NextMig ==
  \/ \E d \in {F32(<<2>>, <<1>>), MkBuf(<<2>>, <<1>>, "f64", FALSE)} :
        Len(heap) < MaxMig /\ NewTensor(d, "None")
  \/ SetDefaultGpu(TRUE)
  \/ \E t \in Ids : Len(heap) < MaxMig /\ Dispatch("sum", <<t>>)
  \/ \E t \in Ids : Len(heap) < MaxMig /\ cuda(t)
  \/ \E t \in Ids : Len(heap) < MaxMig /\ cpu(t)
  \/ \E t \in Ids : nback < MaxFresh /\ backward_begin(t, TRUE)
  \/ backward_step

SpecMig == InitDev /\ [][NextMig]_vars

\* the device of data and gradient: construction, dispatch, every
\* migration, detach and backward under either default device
NextDev ==
  \/ Len(heap) < MaxDevs /\ NewTensor(F32(<<2>>, <<1>>), "None")
  \/ \E b \in BOOLEAN : SetDefaultGpu(b)
  \/ \E t \in Ids : Len(heap) < MaxDevs /\ Dispatch("sum", <<t>>)
  \/ \E t \in Ids : Len(heap) < MaxDevs /\ cuda(t)
  \/ \E t \in Ids : Len(heap) < MaxDevs /\ cpu(t)
  \/ \E t \in Ids : cuda_(t)
  \/ \E t \in Ids : Len(heap) < MaxDevs /\ detach(t)
  \/ \E t \in Ids : \E f \in BOOLEAN : nback < MaxBackward /\ backward_begin(t, f)
  \/ backward_step

SpecDev == InitDev /\ [][NextDev]_vars

\* detach: a tensor is computed, detached, and computed from again
NextDetach ==
  \/ Len(heap) < MaxDetach /\ NewTensor(F32(<<2>>, <<1>>), "None")
  \/ SetDefaultGpu(TRUE)
  \/ \E n \in {"add", "sum"} : \E xs \in Args :
        Len(heap) < MaxDetach /\ Len(xs) = (IF n = "add" THEN 2 ELSE 1) /\ Dispatch(n, xs)
  \/ \E t \in Ids : Len(heap) < MaxDetach /\ detach(t)
  \/ \E t \in Ids : nback < MaxFresh /\ backward_begin(t, TRUE)
  \/ backward_step

SpecDetach == InitDev /\ [][NextDetach]_vars

\* kernels with a non-differentiable input: "first" returns its first input
\* and no gradient for the second
NextNone ==
  \/ Len(heap) < MaxTensors /\ NewTensor(F32(<<3>>, <<1>>), "None")
  \/ register("first", MkFxn("First", FALSE, 1), FALSE)
  \/ \E n \in {"add", "first"} : \E xs \in Pairs :
        Len(heap) < MaxTensors /\ Dispatch(n, xs)
  \/ \E t \in Ids : \E f \in BOOLEAN : nback < MaxFresh /\ backward_begin(t, f)
  \/ backward_step

SpecNone == Init /\ [][NextNone]_vars

\* gradients of a broadcast shape under a reduction: the Add kernel hands
\* its upstream gradient to both parents as it is
NextMismatch ==
  \/ \E d \in {F32(<<3>>, <<1>>), F32(<<1, 2>>, <<2>>)} :
        Len(heap) < MaxMismatch /\ NewTensor(d, "None")
  \/ \E xs \in Pairs : Len(heap) < MaxMismatch /\ Dispatch("add", xs)
  \/ \E t \in Ids : Len(heap) < MaxMismatch /\ Dispatch("sum", <<t>>)
  \/ \E t \in Ids : nback < MaxFresh /\ backward_begin(t, TRUE)
  \/ backward_step

SpecMismatch == Init /\ [][NextMismatch]_vars

\* every public operation on one graph: construction, dispatch, in-place
\* arithmetic, detach, each migration and backward
NextGraph ==
  \/ Len(heap) < MaxGraph /\ NewTensor(F32(<<2>>, <<1>>), "None")
  \/ \E xs \in Pairs : Len(heap) < MaxGraph /\ Dispatch("add", xs)
  \/ \E s \in Ids : \E x \in Ids : ninplace < MaxInplace /\ IDispatch("add", s, x)
  \/ \E t \in Ids : Len(heap) < MaxGraph /\ detach(t)
  \/ \E t \in Ids : Len(heap) < MaxGraph /\ cuda(t)
  \/ \E t \in Ids : Len(heap) < MaxGraph /\ cpu(t)
  \/ \E t \in Ids : cuda_(t)
  \/ \E t \in Ids : \E f \in BOOLEAN : nback < MaxBackward /\ backward_begin(t, f)
  \/ backward_step

SpecGraph == InitDev /\ [][NextGraph]_vars

\* ---------------------------------------------------------------- properties
Range(q) == {q[k] : k \in 1..Len(q)}
Parents(u) == IF heap[u].ctx = 0 THEN <<>> ELSE ctxs[heap[u].ctx].parents
HasGrad(t) == heap[t].grad # <<>>
GradVals(t) == heap[t].grad[1].data.vals

\* a backward() call on a tensor with a producer has just returned normally
Completed ==
  /\ pc = "idle" /\ last.op = "backward" /\ last.err = ""
  /\ bw.nodes # <<>> /\ bw.i = Len(bw.nodes)

\* the tensors reachable from the terminal through producer -> parent edges,
\* the terminal excluded
RECURSIVE Ancestors(_)
Ancestors(u) ==
  Range(Parents(u)) \cup UNION {Ancestors(p) : p \in Range(Parents(u))}

AddVals(a, b) == [n \in 1..Len(a) |-> a[n] + b[n]]

RECURSIVE SumBufs(_)
SumBufs(q) == IF Len(q) = 1 THEN q[1].g.vals ELSE AddVals(q[1].g.vals, SumBufs(Tail(q)))

\* the (consumer, slot) pairs in which x is a parent, among the contexts
\* reachable from y
Uses(x, y) ==
  {<<u, k>> \in (Ancestors(y) \cup {y}) \X (1..2) :
     k <= Len(Parents(u)) /\ Parents(u)[k] = x}

\* the gradient of the seeded terminal y with respect to x by the chain
\* rule: the sum over all uses of x of what the consumer's backward returns
\* for that slot when given the consumer's own gradient
RECURSIVE PathGrad(_, _), SumUses(_, _)
PathGrad(x, y) ==
  IF x = y THEN [n \in 1..Prod(heap[y].data.shape) |-> 1]
  ELSE SumUses(Uses(x, y), y)

SumUses(S, y) ==
  LET e  == CHOOSE e \in S : TRUE
      c  == ctxs[heap[e[1]].ctx]
      g  == MkBuf(PathGrad(e[1], y), heap[e[1]].data.shape, "f32", c.fxn.gpu)
      v  == grads_list(Len(c.parents), kbackward(c, g))[e[2]][1].vals
  IN IF S = {e} THEN v ELSE AddVals(v, SumUses(S \ {e}, y))

\* C1: after backward() on a seeded single-element terminal with all
\* gradients absent before the call, every tensor reachable from the
\* terminal holds the sum of the buffers the consumers' backwards returned
\* for its slots (no gradient if there were none), which is the sum over
\* all paths given by the chain rule.
C1_Accumulation ==
  (Completed /\ bw.fresh /\ bw.seeded) =>
     \A x \in Ancestors(bw.self) :
        IF bw.contrib[x] = <<>> THEN ~HasGrad(x)
        ELSE /\ HasGrad(x)
             /\ GradVals(x) = SumBufs(bw.contrib[x])
             /\ Len(bw.contrib[x]) = Cardinality(Uses(x, bw.self))
             /\ GradVals(x) = PathGrad(x, bw.self)

\* the diamond: leaf x = [3] feeds a = x.mul(x) and b = x.add(x), y = a.add(b)
C1_Witness ==
  /\ Completed /\ bw.fresh /\ bw.seeded
  /\ \E x \in Ids : \E a \in Ids : \E b \in Ids :
       /\ heap[x].ctx = 0 /\ heap[x].data.vals = <<3>>
       /\ a # b /\ Parents(a) = <<x, x>> /\ Parents(b) = <<x, x>>
       /\ ctxs[heap[a].ctx].fxn.kern = "Mul" /\ ctxs[heap[b].ctx].fxn.kern = "Add"
       /\ Parents(bw.self) = <<a, b>> /\ ctxs[heap[bw.self].ctx].fxn.kern = "Add"
       /\ GradVals(x) = <<8>>

\* the step is a call of the method op made while no call is running
Called(op) == pc = "idle" /\ last'.op = op

\* a backward() call on a tensor with a producer has ended, normally or not
Ended == pc = "idle" /\ last.op = "backward" /\ heap[bw.self].ctx # 0

\* C2: backward() on a tensor without a producer changes no tensor and no
\* context, whatever the seeding flag: an absent gradient stays absent, a
\* present one stays as it is, and the call returns at once.
C2_LeafNoop ==
  [][\A t \in Ids : \A f \in BOOLEAN :
       (heap[t].ctx = 0 /\ Called("backward") /\ backward_begin(t, f)) =>
          (heap' = heap /\ ctxs' = ctxs /\ pc' = "idle" /\ last'.err = "")]_vars

\* backward() has just returned on a leaf that holds a gradient
C2_Witness ==
  /\ pc = "idle" /\ last.op = "backward" /\ last.err = ""
  /\ bw.self # 0 /\ heap[bw.self].ctx = 0 /\ bw.nodes = <<>>
  /\ HasGrad(bw.self)
  /\ \E u \in Ids : ~HasGrad(u) /\ heap[u].ctx # 0

\* what the producer of u returns for slot k when given u's gradient
Returned(u, k) ==
  LET c == ctxs[heap[u].ctx]
  IN grads_list(Len(c.parents), kbackward(c, heap[u].grad[1].data))[k]

\* C4: after backward() with all gradients absent before the call, each
\* buffer accumulated into a tensor x is the one its consumer returned for
\* a slot that x occupies, every slot of every processed context has been
\* accumulated exactly once, and for c = a.mul(b) over two leaves a gets
\* b's data and b gets a's.
C4_Positional ==
  (Completed /\ bw.fresh /\ bw.seeded) =>
     /\ \A x \in Ids : \A j \in 1..Len(bw.contrib[x]) :
          LET e == bw.contrib[x][j]
          IN /\ e.k <= Len(Parents(e.u)) /\ Parents(e.u)[e.k] = x
             /\ <<e.g>> = Returned(e.u, e.k)
     /\ \A u \in Range(bw.nodes) : \A k \in 1..Len(Parents(u)) :
          Cardinality({j \in 1..Len(bw.contrib[Parents(u)[k]]) :
                         bw.contrib[Parents(u)[k]][j].u = u
                         /\ bw.contrib[Parents(u)[k]][j].k = k}) = 1
     /\ \A a \in Ids : \A b \in Ids :
          (/\ a # b /\ heap[a].ctx = 0 /\ heap[b].ctx = 0
           /\ Parents(bw.self) = <<a, b>>
           /\ ctxs[heap[bw.self].ctx].fxn.kern = "Mul")
          => (GradVals(a) = heap[b].data.vals /\ GradVals(b) = heap[a].data.vals)

\* a = [2], b = [3], c = a.mul(b), c.backward(): a.grad = [3], b.grad = [2]
C4_Witness ==
  /\ Completed /\ bw.fresh /\ bw.seeded
  /\ \E a \in Ids : \E b \in Ids :
       /\ heap[a].ctx = 0 /\ heap[b].ctx = 0
       /\ heap[a].data.vals = <<2>> /\ heap[b].data.vals = <<3>>
       /\ Parents(bw.self) = <<a, b>>
       /\ ctxs[heap[bw.self].ctx].fxn.kern = "Mul"
       /\ GradVals(a) = <<3>> /\ GradVals(b) = <<2>>

\* the number of "double" applications leading from x to y, -1 if y is not
\* the end of such a chain from x
RECURSIVE ChainLen(_, _)
ChainLen(y, x) ==
  IF y = x THEN 0
  ELSE IF heap[y].ctx = 0 THEN -1
  ELSE IF ctxs[heap[y].ctx].fxn.kern # "Double" THEN -1
  ELSE LET r == ChainLen(Parents(y)[1], x)
       IN IF r < 0 THEN -1 ELSE r + 1

RECURSIVE Pow2(_)
Pow2(n) == IF n = 0 THEN 1 ELSE 2 * Pow2(n - 1)

\* C5: backward() with seeding and all gradients absent, on the end of a
\* chain of n >= 1 applications of double to a leaf x, returns normally and
\* leaves x.grad = [2^n].
C5_Chain ==
  (Ended /\ bw.fresh /\ bw.seeded) =>
     \A x \in Ids :
        (heap[x].ctx = 0 /\ ChainLen(bw.self, x) >= 1) =>
           /\ last.err = ""
           /\ HasGrad(x)
           /\ GradVals(x) = <<Pow2(ChainLen(bw.self, x))>>

\* x = [1], y = x.double().double(), y.backward(): x.grad = [4]
C5_Witness ==
  /\ Completed /\ bw.fresh /\ bw.seeded
  /\ \E x \in Ids :
       /\ heap[x].ctx = 0 /\ heap[x].data.vals = <<1>>
       /\ ChainLen(bw.self, x) = 2
       /\ GradVals(x) = <<4>>

GradShape(t) == heap[t].grad[1].data.shape

\* C3 (as stated): whenever a backward() call has completed successfully,
\* every tensor whose gradient is present has a gradient of the shape of
\* its data.
C3_ShapeInvariant ==
  (pc = "idle" /\ last.op = "backward" /\ last.err = "") =>
     \A t \in Ids : HasGrad(t) => GradShape(t) = heap[t].data.shape

\* all ones, of the shape, element type and device of the terminal
OnesLike(t) ==
  MkGrad(MkBuf([n \in 1..Prod(t.data.shape) |-> 1], t.data.shape, t.data.dt, t.gpu),
         t.gpu)

\* the call has seeded t and stands before the first loop iteration
SeededBy(t) ==
  /\ last'.err = "running" /\ pc' = "propagating" /\ bw'.i = 0
  /\ heap' = [heap EXCEPT ![t].grad = <<OnesLike(heap[t])>>]

\* the call has failed at the seeding assertion
SeedRefused ==
  last'.err = "AssertionFailure" /\ pc' = "idle" /\ heap' = heap

\* C6 (as stated): backward() with seeding permitted, on a terminal with a
\* producer and no gradient, seeds a single-element terminal with ones of
\* its shape and device before propagation, and fails with an
\* AssertionFailure, no gradient changed, on a terminal of more than one
\* element; a gradient already present is not overwritten.
C6_SeedingSingleElement ==
  [][\A t \in Ids : \A f \in BOOLEAN :
       (heap[t].ctx # 0 /\ Called("backward") /\ backward_begin(t, f)) =>
          IF HasGrad(t) THEN heap' = heap
          ELSE f => IF Prod(heap[t].data.shape) = 1 THEN SeededBy(t) ELSE SeedRefused]_vars

\* C6 (amended): the terminal is seeded exactly when its shape is (1,);
\* with any other shape, a single element of shape (1,1) included, the
\* call fails with an AssertionFailure and changes no gradient; a gradient
\* already present is not overwritten, and without permission nothing is
\* seeded.
C6_Seeding ==
  [][\A t \in Ids : \A f \in BOOLEAN :
       (heap[t].ctx # 0 /\ Called("backward") /\ backward_begin(t, f)) =>
          IF HasGrad(t) \/ ~f THEN heap' = heap
          ELSE IF heap[t].data.shape = <<1>> THEN SeededBy(t) ELSE SeedRefused]_vars

\* a terminal on the accelerator has just been seeded there
C6_Witness ==
  /\ pc = "propagating" /\ bw.seeded /\ bw.i = 0
  /\ heap[bw.self].gpu /\ heap[bw.self].ctx # 0
  /\ heap[bw.self].grad = <<OnesLike(heap[bw.self])>>
  /\ heap[bw.self].grad[1].data.gpu

\* the table x[0].name(...) reads
TableOf(t) == IF heap[t].gpu THEN opsgpu ELSE ops

\* C7: a dispatch reads the table of the first input's device, whatever
\* the devices of the other inputs: without an entry for the name there it
\* fails with OperationNotFound, creating no context and no tensor and
\* changing none, even when the other table has the name; with an entry
\* it does not fail that way, and a successful call records the class
\* registered there at the time of the call.
C7_DispatchSelection ==
  [][\A n \in Names : \A xs \in Args :
       (Called(n) /\ Dispatch(n, xs)) =>
          IF TableOf(xs[1])[n] = <<>>
          THEN last'.err = "OperationNotFound" /\ heap' = heap /\ ctxs' = ctxs
          ELSE /\ last'.err # "OperationNotFound"
               /\ last'.err = "" =>
                    /\ Len(ctxs') = Len(ctxs) + 1
                    /\ ctxs'[Len(ctxs')].fxn = TableOf(xs[1])[n][1]]_vars

\* "double" has just failed with OperationNotFound on an accelerator
\* tensor while the host table has it
C7_Witness ==
  /\ last.op = "double" /\ last.err = "OperationNotFound"
  /\ ops["double"] # <<>> /\ opsgpu["double"] = <<>>
  /\ \E t \in Ids : heap[t].gpu

\* C8 (as stated): a successful dispatch returns a new tensor on the
\* device of the first input, whatever the default device, without a
\* gradient, produced by a fresh context whose parents are the inputs in
\* call order.
C8_DispatchOutput ==
  [][\A n \in Names : \A xs \in Args :
       (Called(n) /\ last'.err = "" /\ Dispatch(n, xs)) =>
          /\ Len(heap') = Len(heap) + 1 /\ last'.ret = Len(heap')
          /\ Len(ctxs') = Len(ctxs) + 1
          /\ heap'[Len(heap')].gpu = heap[xs[1]].gpu
          /\ heap'[Len(heap')].grad = <<>>
          /\ heap'[Len(heap')].ctx = Len(ctxs')
          /\ ctxs'[Len(ctxs')].parents = xs]_vars

\* C9 (as stated): every tensor whose gradient is present has it on the
\* device of its data.
C9_DeviceInvariant ==
  \A t \in Ids : HasGrad(t) => heap[t].grad[1].gpu = heap[t].gpu

SameBuf(a, b) == a.vals = b.vals /\ a.shape = b.shape
SameGrad(a, b) == IF b = <<>> THEN a = <<>> ELSE a # <<>> /\ SameBuf(a[1].data, b[1].data)

\* cuda() on a host tensor t has answered with a new accelerator tensor
\* whose copy back to the host equals t, gradient included; t is unchanged
RoundTrip(t) ==
  /\ last'.err = "" /\ last'.ret # t /\ heap'[t] = heap[t]
  /\ heap'[last'.ret].gpu
  /\ LET w == cpu_ret(heap'[last'.ret])
     IN /\ w.err = "" /\ ~w.same /\ ~w.t[1].gpu /\ ~w.t[1].data.gpu
        /\ SameBuf(w.t[1].data, heap[t].data)
        /\ SameGrad(w.t[1].grad, heap[t].grad)

\* cpu() on an accelerator tensor t has answered with a new host tensor
\* equal to t, gradient included; t is unchanged
CopiedBack(t) ==
  /\ last'.err = "" /\ last'.ret # t /\ heap'[t] = heap[t]
  /\ ~heap'[last'.ret].gpu /\ ~heap'[last'.ret].data.gpu
  /\ SameBuf(heap'[last'.ret].data, heap[t].data)
  /\ SameGrad(heap'[last'.ret].grad, heap[t].grad)

\* the call has answered with t itself
SameTensor(t) == last'.err = "" /\ last'.ret = t /\ heap' = heap

F32Host(t) ==
  /\ ~heap[t].gpu /\ heap[t].data.dt = "f32"
  /\ HasGrad(t) => heap[t].grad[1].data.dt = "f32"

\* C10 (as stated): with an accelerator, cuda() then cpu() on any host
\* tensor yields a host tensor with an equal buffer and an equal gradient
\* buffer, the tensor itself unchanged; a migration to the device a tensor
\* is on answers with that very tensor.
C10_RoundTripAnyHost ==
  [][\A t \in Ids :
       /\ (~heap[t].gpu /\ Called("cuda") /\ cuda(t)) => RoundTrip(t)
       /\ (heap[t].gpu /\ Called("cpu") /\ cpu(t)) => CopiedBack(t)
       /\ (heap[t].gpu /\ Called("cuda") /\ cuda(t)) => SameTensor(t)
       /\ (~heap[t].gpu /\ Called("cpu") /\ cpu(t)) => SameTensor(t)]_vars

\* C10 (amended): the round trip holds for host tensors of 32-bit floats
\* (gradient included); cuda() on a host tensor of another element type
\* fails with an AssertionFailure and creates nothing.
C10_RoundTrip ==
  [][\A t \in Ids :
       /\ (F32Host(t) /\ Called("cuda") /\ cuda(t)) => RoundTrip(t)
       /\ (~heap[t].gpu /\ heap[t].data.dt # "f32" /\ Called("cuda") /\ cuda(t)) =>
             (last'.err = "AssertionFailure" /\ heap' = heap)
       /\ (heap[t].gpu /\ Called("cpu") /\ cpu(t)) => CopiedBack(t)
       /\ (heap[t].gpu /\ Called("cuda") /\ cuda(t)) => SameTensor(t)
       /\ (~heap[t].gpu /\ Called("cpu") /\ cpu(t)) => SameTensor(t)]_vars

\* x with a gradient, u = x.cuda(), w = u.cpu(): w is a third tensor, on
\* the host, with x's buffer and x's gradient buffer
C10_Witness ==
  /\ GPU /\ last.op = "cpu" /\ last.err = "" /\ last.ret # 0
  /\ \E x \in Ids : \E u \in Ids :
       /\ ~heap[x].gpu /\ HasGrad(x) /\ heap[x].ctx = 0
       /\ heap[u].gpu /\ heap[u].data.gpu /\ HasGrad(u) /\ heap[u].grad[1].data.gpu
       /\ last.ret \notin {x, u}
       /\ ~heap[last.ret].gpu
       /\ SameBuf(heap[last.ret].data, heap[x].data)
       /\ SameBuf(heap[u].data, heap[x].data)
       /\ HasGrad(last.ret)
       /\ SameBuf(heap[last.ret].grad[1].data, heap[x].grad[1].data)

\* the terminal and everything reachable from it through producer -> parent
\* edges
Reach(y) == Ancestors(y) \cup {y}

C12_InplaceDiscards ==
  [][\A r \in Ids : \A x \in Ids :
       (Called("iadd") /\ last'.err = "" /\ IDispatch("add", r, x)) =>
          /\ Len(heap') = Len(heap)
          /\ heap'[r].data = dispatch("add", heap[r].gpu, DataOf(<<r, x>>)).data[1]
          /\ heap'[r].ctx = 0]_vars

Kerns == {KernOf[n] : n \in Names}

\* C13: each table holds at most one class per name; register(name, fxn,
\* gpu) makes fxn the entry of name in the table of that backend, replacing
\* what was there, and leaves every other name and the other table as
\* they were; a later successful dispatch of the name on that backend
\* records the class registered last.
C13_RegistryOverwrite ==
  [][/\ \A n \in Names : Len(ops'[n]) <= 1 /\ Len(opsgpu'[n]) <= 1
     /\ \A n \in Names : \A k \in Kerns : \A g \in BOOLEAN : \A v \in 1..2 :
          (Called("register") /\ register(n, MkFxn(k, g, v), g)) =>
             /\ (IF g THEN opsgpu' ELSE ops')[n] = <<MkFxn(k, g, v)>>
             /\ (IF g THEN ops' ELSE opsgpu') = (IF g THEN ops ELSE opsgpu)
             /\ \A m \in Names \ {n} : ops'[m] = ops[m] /\ opsgpu'[m] = opsgpu[m]
             /\ heap' = heap /\ ctxs' = ctxs
     /\ \A n \in Names :
          (last'.op = n /\ last'.err = "" /\ Len(heap') = Len(heap) + 1) =>
             ctxs'[Len(ctxs')].fxn = TableOf(ctxs'[Len(ctxs')].parents[1])[n][1]]_vars

\* "double" was dispatched under its first registration and, after a
\* second registration for the same backend, under the second
C13_Witness ==
  /\ last.op = "double" /\ last.err = "" /\ last.ret # 0
  /\ \E b \in Ids :
       /\ heap[b].ctx # 0 /\ b # last.ret
       /\ ctxs[heap[b].ctx].fxn.kern = "Double" /\ ctxs[heap[b].ctx].fxn.ver = 1
       /\ ctxs[heap[last.ret].ctx].fxn.ver = 2
       /\ ctxs[heap[last.ret].ctx].fxn.gpu = ctxs[heap[b].ctx].fxn.gpu
       /\ TableOf(b)[last.op] = <<ctxs[heap[last.ret].ctx].fxn>>

\* the positions of the walk sequence that the loop has already processed
Processed == {j \in 1..Len(bw.nodes) : j > Len(bw.nodes) - bw.i}

\* C14: in the sequence the walker hands to the loop every tensor stands
\* before each of its consumers, so the reversed loop invokes a tensor's
\* producer only after the producers of all its reachable consumers; from
\* the iteration that reads a tensor's gradient on, that gradient does not
\* change for the rest of the call.
C14_ProcessingOrder ==
  [][/\ \A j \in 1..Len(bw'.nodes) : \A k \in 1..Len(bw'.nodes) :
          bw'.nodes[j] \in Range(Parents(bw'.nodes[k])) => j < k
     /\ (pc = "propagating") =>
          /\ \A j \in Processed : heap'[bw.nodes[j]].grad = heap[bw.nodes[j]].grad
          /\ heap'[bw.nodes[Len(bw.nodes) - bw.i]].grad
               = heap[bw.nodes[Len(bw.nodes) - bw.i]].grad
          /\ \A u \in Range(bw.nodes) :
               bw.nodes[Len(bw.nodes) - bw.i] \in Range(Parents(u)) =>
                  \E j \in Processed : bw.nodes[j] = u]_vars

\* a diamond walked to the end: a = f(x, x) feeds b, and both a and b feed
\* the terminal
C14_Witness ==
  /\ Completed /\ Len(bw.nodes) = 3
  /\ \E a \in Ids : \E b \in Ids : \E x \in Ids :
       /\ a # b /\ Parents(a) = <<x, x>> /\ heap[x].ctx = 0
       /\ a \in Range(Parents(b))
       /\ Parents(bw.self) = <<a, b>>
       /\ bw.nodes = <<a, b, bw.self>>

\* the tensors with a producer among the terminal and what it reaches
Producing(y) == {u \in Reach(y) : heap[u].ctx # 0}

\* the number of iterations that processed the tensor u
TimesProcessed(u) == Cardinality({j \in Processed : bw.nodes[j] = u})

\* C15: once a backward() call on a terminal with a producer is past
\* seeding, the walk sequence holds exactly the tensors with a producer
\* that the terminal reaches (itself included), each once, and so no leaf
\* and nothing unreachable; a call that returns normally has processed
\* each of them exactly once.
C15_WalkerCoverage ==
  /\ (pc = "propagating") => bw.nodes # <<>>
  /\ (bw.nodes # <<>>) =>
       /\ Range(bw.nodes) = Producing(bw.self)
       /\ Len(bw.nodes) = Cardinality(Producing(bw.self))
       /\ \A u \in Range(bw.nodes) : TimesProcessed(u) <= 1
  /\ (Ended /\ last.err = "") =>
       /\ bw.nodes # <<>>
       /\ \A u \in Producing(bw.self) : TimesProcessed(u) = 1

\* backward() has returned on the terminal of a diamond over a tensor with
\* a producer: three tensors walked, the leaf not among them
C15_Witness ==
  /\ Completed /\ Len(bw.nodes) = 3 /\ Cardinality(Reach(bw.self)) = 4
  /\ \E a \in Range(bw.nodes) : \E b \in Range(bw.nodes) :
       /\ a # b /\ a \in Range(Parents(b)) /\ a \in Range(Parents(bw.self))
       /\ b \in Range(Parents(bw.self))
  /\ \E x \in Reach(bw.self) : heap[x].ctx = 0 /\ x \notin Range(bw.nodes)

\* the loop over the walk sequence has stopped at a tensor without a gradient
GradMissing ==
  /\ Ended /\ last.err = "AssertionFailure"
  /\ bw.nodes # <<>> /\ bw.i < Len(bw.nodes)
  /\ ~HasGrad(bw.nodes[Len(bw.nodes) - bw.i])

\* C16: in the Propagating phase of any backward() call every tensor of
\* the walk sequence holds a gradient when its turn comes, whatever slots
\* the kernels' backward leave absent: the loop never stops at a tensor
\* without a gradient.
C16_GradPresent == ~GradMissing

\* the tensor the current iteration of the loop processes
Current == bw.nodes[Len(bw.nodes) - bw.i]

\* the slots the backward of the current tensor's context returns
Slots ==
  grads_list(Len(Parents(Current)),
             kbackward(ctxs[heap[Current].ctx], heap[Current].grad[1].data))

\* the parents of the current tensor handed a gradient of another shape
Mismatched ==
  {Parents(Current)[k] : k \in {j \in 1..Len(Parents(Current)) :
       /\ j <= Len(Slots) /\ Slots[j] # <<>>
       /\ Slots[j][1].shape # heap[Parents(Current)[j]].data.shape}}

\* C17: a backward() call in which some context's backward returns a
\* present gradient of a shape other than its parent's data shape fails
\* with ShapeMismatch, the error names that context, also when it is not
\* the terminal's own producer, and the parent's gradient is left as it
\* was.
C17_MismatchReport ==
  [][(pc = "propagating" /\ HasGrad(Current)
        /\ kbackward(ctxs[heap[Current].ctx], heap[Current].grad[1].data).err = ""
        /\ Mismatched # {}) =>
       /\ last'.err = "ShapeMismatch"
       /\ last'.ctx = heap[Current].ctx
       /\ \A p \in Mismatched : heap'[p].grad = heap[p].grad]_vars

StartVals(p) ==
  IF p = bw.self /\ bw.seeded THEN <<[n \in 1..Prod(heap[p].data.shape) |-> 1]>>
  ELSE IF bw.before[p] = <<>> THEN <<>>
  ELSE <<bw.before[p][1].data.vals>>

\* x -> a = x.add(x) -> y = a.add(a), a chain of two linear ops
IsChain(x, a, y) ==
  /\ heap[x].ctx = 0 /\ Parents(a) = <<x, x>> /\ Parents(y) = <<a, a>>
  /\ ctxs[heap[a].ctx].fxn.kern = "Add" /\ ctxs[heap[y].ctx].fxn.kern = "Add"

\* the gradients of the chain are those one backward() call on y leaves
AfterOne(vals, x, a, y) ==
  /\ vals[y] = <<<<1>>>> /\ vals[a] = <<<<2>>>> /\ vals[x] = <<<<4>>>>

\* C19: at every point of a backward() call past seeding, and after it,
\* the gradient of the terminal and of every tensor it reaches is the
\* gradient the call found (the seed, for a seeded terminal) plus the sum
\* of the contributions made to it in the call; a terminal is seeded only
\* when the call found no gradient on it. So a second call on the terminal
\* of a chain of two linear ops leaves the leaf with three times the
\* gradient of the first call.
C19_NoReset ==
  (last.op = "backward" /\ bw.nodes # <<>>) =>
    /\ bw.seeded => bw.before[bw.self] = <<>>
    /\ \A p \in Reach(bw.self) :
         IF bw.contrib[p] = <<>>
         THEN IF StartVals(p) = <<>> THEN ~HasGrad(p)
              ELSE HasGrad(p) /\ GradVals(p) = StartVals(p)[1]
         ELSE /\ HasGrad(p)
              /\ GradVals(p) = IF StartVals(p) = <<>> THEN SumBufs(bw.contrib[p])
                                ELSE AddVals(StartVals(p)[1], SumBufs(bw.contrib[p]))
    /\ Completed =>
         \A x \in Ids : \A a \in Ids :
            (IsChain(x, a, bw.self)
               /\ AfterOne([p \in 1..Len(bw.before) |-> StartVals(p)], x, a, bw.self)) =>
              GradVals(x) = <<12>>

\* the second backward() on the terminal of the chain has returned: the
\* terminal kept its gradient unseeded and the leaf went from 4 to 12
C19_Witness ==
  /\ Completed /\ ~bw.seeded /\ nback = 2
  /\ \E x \in Ids : \E a \in Ids :
       /\ IsChain(x, a, bw.self)
       /\ bw.before[x] # <<>> /\ bw.before[x][1].data.vals = <<4>>
       /\ GradVals(x) = <<12>> /\ GradVals(a) = <<4>> /\ GradVals(bw.self) = <<1>>

\* C20: a step of a backward() call on the terminal y creates no tensor
\* and no context, leaves the registry, the data, device and producer of
\* every tensor and the parents of every context as they were, and changes
\* the gradient of no tensor outside y and what y reaches; a dispatch, a
\* detach or a migration changes the gradient of no existing tensor.
C20_Frame ==
  [][/\ (last'.op = "backward") =>
          /\ Len(heap') = Len(heap) /\ ctxs' = ctxs
          /\ ops' = ops /\ opsgpu' = opsgpu
          /\ \A t \in Ids : /\ heap'[t].data = heap[t].data
                             /\ heap'[t].gpu = heap[t].gpu
                             /\ heap'[t].ctx = heap[t].ctx
          /\ \A t \in Ids \ Reach(bw'.self) : heap'[t].grad = heap[t].grad
     /\ (last'.op \in {"add", "detach", "cuda", "cpu", "cuda_"}) =>
          \A t \in Ids : heap'[t].grad = heap[t].grad]_vars

\* a second backward() call has added to a gradient of a tensor it
\* reaches while a migrated copy outside its graph holds a gradient too
C20_Witness ==
  /\ Completed /\ nback = 2
  /\ \E p \in Ancestors(bw.self) : bw.before[p] # <<>> /\ bw.contrib[p] # <<>>
  /\ \E u \in Ids \ Reach(bw.self) : HasGrad(u) /\ heap[u].gpu /\ heap[u].ctx = 0

====
